---- MODULE Spec2Model ----
(***************************************************************************)
(* Verification model of tigeryant/blocktalk.                              *)
(*                                                                         *)
(*  - SpecNotif  : the notification service of the blocktalk crate         *)
(*                 (blocktalk/src/notification.rs, blocktalk/src/chain.rs) *)
(*  - SpecWallet : the wallet engine of the bitcoin-wallet crate           *)
(*                 (bitcoin-wallet/src/wallet/interface.rs)                *)
(*                                                                         *)
(* Each specification leaves the variables of the other subsystem at their *)
(* initial values.                                                         *)
(***************************************************************************)
EXTENDS Integers, Sequences, FiniteSets, Bags, TLC

(***************************************************************************)
(* Bounds of the model.                                                    *)
(***************************************************************************)
\* handlers that may be registered (each once; handler k is the k-th to register)
MaxHandlers == 2
\* inbound peer calls on the notification server object
MaxEvents == 2
\* height of the longest chain the node may reach
MaxHeight == 2
\* RPC worker threads of the wallet daemon
NumWorkers == 2
\* wallet operations started in one behaviour
MaxOps == 3
\* requests a client sends on one connection
MaxReqs == 3
\* the largest amount bdk reports for a part of the balance that does not come
\* from the model's blocks
MaxAmount == 1

(***************************************************************************)
(* Notification service state.                                             *)
(***************************************************************************)
VARIABLES
    handlers,     \* ChainNotificationHandler.handlers: the shared Vec, in push order
    listening,    \* begin_chain_updates has handed the server object to the node
    cur,          \* the task the single-threaded executor is polling (0: none)
    ev,           \* one record per inbound peer call (the future it created)
    regOrder,     \* history: handlers whose registration returned Ok, in that order
    removed       \* history: handlers whose removal returned Ok

nvars == <<handlers, listening, cur, ev, regOrder, removed>>

(***************************************************************************)
(* Wallet engine state.                                                    *)
(***************************************************************************)
VARIABLES
    db,           \* the wallet store file: NoWallet or the persisted wallet
    current,      \* WalletInterface.wallet: 0 (None) or the current wallet object
    inst,         \* the wallet objects (Arc<ThreadSafeWallet>) created so far
    lock,         \* per wallet object: the worker holding its Mutex (0: free)
    pc,           \* per RPC worker thread: where it is in its operation
    loc,          \* per RPC worker thread: the locals of its operation
    ops,          \* operations started so far
    gnaLog        \* history: what get_new_address returned: a bag of [wal, addr, conc]

wvars == <<db, current, inst, lock, pc, loc, ops, gnaLog>>

(***************************************************************************)
(* Transport state: one Connection to the node.                            *)
(***************************************************************************)
VARIABLES
    cstep,        \* Connection::connect: the setup step it is at
    calls,        \* history: the setup calls connect issued, [step, ok], in order
    cres,         \* what connect returned: <<>> (not yet), <<"err", step>>,
                  \* <<"panic", step>> or <<"connection">>
    driver,       \* the task spawn_rpc started: "none", "running", "ok", "err"
    link,         \* the socket and the rpc system's connection state
    reqs,         \* per request a client sends on the connection: its state
    disc,         \* Connection::disconnect: "none", "signalled", "ok", "err"
    holders       \* the owners of the Connection: the strong count of its Arc

tvars == <<cstep, calls, cres, driver, link, reqs, disc, holders>>

(***************************************************************************)
(* The node and the requests of the Blockchain and Mempool interfaces.     *)
(***************************************************************************)
VARIABLES
    nodeTip,      \* the tip of the node's active chain
    gt,           \* Blockchain::get_tip: the call in progress and its result
    sent,         \* the request sent last: <<>> or <<[method, context]>>
    done          \* history: the last call that returned, [method, reply, result]

qvars == <<nodeTip, gt, sent, done>>

vars == <<nvars, wvars, tvars, qvars>>

HandlerIds == 1..MaxHandlers
EventIds == 1..MaxEvents

\* chain_notifications::Server methods the peer may call
Methods == {"block_connected", "block_disconnected",
            "transaction_added_to_mempool", "transaction_removed_from_mempool",
            "updated_block_tip", "chain_state_flushed", "destroy"}

\* the methods that decode a payload carried by the call
DecodingMethods == {"block_connected", "block_disconnected",
                    "transaction_added_to_mempool", "transaction_removed_from_mempool"}

Range(s) == {s[i] : i \in 1..Len(s)}

\* what an inbound method does with its call: "decode" a payload and dispatch,
\* dispatch a "plain" notification, or "ack" (destroy)
MethodKind(m) ==
    IF m = "destroy" THEN "ack"
    ELSE IF m \in DecodingMethods THEN "decode" ELSE "plain"

NoEvent == [st |-> "none", kind |-> "none", decoded |-> TRUE,
            snapshot |-> <<>>, idx |-> 1, inH |-> FALSE, susp |-> FALSE,
            calls |-> <<>>, rets |-> <<>>, regs |-> <<>>, reply |-> "none",
            guard |-> FALSE]

\* register_handler: guard.push(handler)
RegisterHandler(list, h) == Append(list, h)

\* dispatch_notification: `guard.clone()` of the Vec under the lock
Snapshot(list) == list

\* dispatch_notification: whether the guard of the handler-list mutex is alive
\* after `let handlers = { let guard = ...; guard.clone() };`: it is a local
\* of the inner block and dropped at its end
GuardKept(e) == TRUE
GuardAfterSnapshot(e) == FALSE

\* `for handler in handlers`: the i-th handler of the snapshot
HandlerAtReversed(snap, i) == snap[Len(snap) + 1 - i]
HandlerAt(snap, i) == snap[i]

\* `handler.handle_notification(..).await?`: what dispatch does with a handler's
\* result: "next" moves on to the following handler, "abort" returns the error
AfterHandler(ok) == IF ok THEN "next" ELSE "abort"

\* the reply of an inbound method whose dispatch returned `res`:
\* dispatch_notification(..).await.map_err(capnp::Error::failed)
ReplyOf(res) == IF res = "ok" THEN "ok" ELSE "err"

\* requests a client may send on the connection
ReqIds == 1..MaxReqs

\* before Connection::connect is called
InitConnVars ==
    /\ cstep = "create_network"
    /\ holders = 0
    /\ calls = <<>>
    /\ cres = <<>>
    /\ driver = "none"
    /\ link = "none"
    /\ reqs = [r \in ReqIds |-> "none"]
    /\ disc = "none"

InitNotifVars ==
    /\ handlers = <<>>
    /\ listening = FALSE
    /\ cur = 0
    /\ ev = [e \in EventIds |-> NoEvent]
    /\ regOrder = <<>>
    /\ removed = {}

\* the std Mutex of the handler list is free: no dispatch holds its guard
HandlersLockFree == \A e \in EventIds : ~ev[e].guard

\* Blockchain::add_notification_handler -> register_handler, which locks the
\* handler list for the push
AddNotificationHandler(h) ==
    /\ cur = 0
    /\ HandlersLockFree
    /\ h = Len(regOrder) + 1
    /\ handlers' = RegisterHandler(handlers, h)
    /\ regOrder' = Append(regOrder, h)
    /\ UNCHANGED <<listening, cur, ev>>
    /\ UNCHANGED <<removed, wvars, tvars, qvars>>

\* Blockchain::begin_chain_updates: the server object is a clone sharing the Vec
BeginChainUpdates ==
    /\ cur = 0
    /\ ~listening
    /\ \E ok \in BOOLEAN : listening' = ok
    /\ UNCHANGED <<handlers, cur, ev, regOrder>>
    /\ UNCHANGED <<removed, wvars, tvars, qvars>>

\* an inbound peer call: the method decodes its payload and enters
\* dispatch_notification, which snapshots the handler list
InboundCall(e, m, dec) ==
    /\ listening
    /\ cur = 0
    /\ ev[e].st = "none"
    /\ \A d \in EventIds : d < e => ev[d].st # "none"
    /\ IF MethodKind(m) = "ack"
         THEN /\ ev' = [ev EXCEPT ![e] = [@ EXCEPT !.st = "done", !.kind = "ack",
                                             !.reply = "ok"]]
              /\ cur' = cur
         ELSE IF MethodKind(m) = "decode" /\ ~dec
         THEN /\ ev' = [ev EXCEPT ![e] = [@ EXCEPT !.st = "done", !.kind = "decode",
                                             !.decoded = FALSE, !.reply = "err"]]
              /\ cur' = cur
         ELSE /\ ev' = [ev EXCEPT ![e] = [@ EXCEPT !.st = "dispatch",
                                             !.kind = MethodKind(m),
                                             !.snapshot = Snapshot(handlers),
                                             !.guard = GuardAfterSnapshot(e),
                                             !.regs = regOrder]]
              /\ cur' = e
    /\ UNCHANGED <<handlers, listening, regOrder>>
    /\ UNCHANGED <<removed, wvars, tvars, qvars>>

\* dispatch_notification: the loop calls the next handler of the snapshot
InvokeHandler(e) ==
    /\ cur = e
    /\ ev[e].st = "dispatch"
    /\ ~ev[e].inH
    /\ ev[e].idx <= Len(ev[e].snapshot)
    /\ ev' = [ev EXCEPT ![e] = [@ EXCEPT !.inH = TRUE,
                  !.calls = Append(@, HandlerAt(ev[e].snapshot, ev[e].idx))]]
    /\ UNCHANGED <<handlers, listening, cur, regOrder>>
    /\ UNCHANGED <<removed, wvars, tvars, qvars>>

\* the running handler awaits: the executor is free to poll other tasks
HandlerSuspend(e) ==
    /\ cur = e
    /\ ev[e].inH
    /\ ev' = [ev EXCEPT ![e] = [@ EXCEPT !.susp = TRUE]]
    /\ cur' = 0
    /\ UNCHANGED <<handlers, listening, regOrder>>
    /\ UNCHANGED <<removed, wvars, tvars, qvars>>

\* the executor polls the suspended handler again
HandlerResume(e) ==
    /\ cur = 0
    /\ ev[e].susp
    /\ ev' = [ev EXCEPT ![e] = [@ EXCEPT !.susp = FALSE]]
    /\ cur' = e
    /\ UNCHANGED <<handlers, listening, regOrder>>
    /\ UNCHANGED <<removed, wvars, tvars, qvars>>

\* the running handler returns Ok or Err; `?` ends the dispatch on Err
HandlerReturn(e, ok) ==
    /\ cur = e
    /\ ev[e].inH
    /\ IF AfterHandler(ok) = "next"
         THEN /\ ev' = [ev EXCEPT ![e] = [@ EXCEPT !.inH = FALSE, !.idx = @ + 1,
                            !.rets = Append(@, IF ok THEN "ok" ELSE "err")]]
              /\ cur' = cur
         ELSE /\ ev' = [ev EXCEPT ![e] = [@ EXCEPT !.inH = FALSE, !.st = "done",
                            !.rets = Append(@, IF ok THEN "ok" ELSE "err"),
                            !.reply = ReplyOf("err")]]
              /\ cur' = 0
    /\ UNCHANGED <<handlers, listening, regOrder>>
    /\ UNCHANGED <<removed, wvars, tvars, qvars>>

\* the loop is over: dispatch_notification returns Ok(())
DispatchEnd(e) ==
    /\ cur = e
    /\ ev[e].st = "dispatch"
    /\ ~ev[e].inH
    /\ ev[e].idx > Len(ev[e].snapshot)
    /\ ev' = [ev EXCEPT ![e] = [@ EXCEPT !.st = "done", !.reply = ReplyOf("ok")]]
    /\ cur' = 0
    /\ UNCHANGED <<handlers, listening, regOrder>>
    /\ UNCHANGED <<removed, wvars, tvars, qvars>>


(***************************************************************************)
(* Blocks and chains.  A block hash is <<height, branch>>: two branches    *)
(* compete above the common genesis block.                                 *)
(***************************************************************************)
Heights == 0..MaxHeight
Branches == {"a", "b"}
Genesis == <<0, "a">>
NoBlock == <<>>
Hashes == {Genesis} \cup {<<k, b>> : k \in 1..MaxHeight, b \in Branches}

\* block.header.prev_blockhash
PrevHash(blk) == IF blk[1] = 1 THEN Genesis ELSE <<blk[1] - 1, blk[2]>>

\* find_ancestor_by_height(tip_hash, k): the ancestor of tip_hash at height k
AncestorAt(tipHash, k) == IF k = 0 THEN Genesis ELSE <<k, tipHash[2]>>

\* a wallet's chain of checkpoints: height -> hash or NoBlock
EmptyChain == [k \in Heights |-> IF k = 0 THEN Genesis ELSE NoBlock]

\* Wallet::latest_checkpoint: the highest checkpoint of the chain
TipHeight(chain) ==
    CHOOSE k \in Heights : chain[k] # NoBlock /\ \A j \in Heights : j > k => chain[j] = NoBlock
LatestCheckpoint(chain) == [height |-> TipHeight(chain), hash |-> chain[TipHeight(chain)]]

\* Wallet::apply_block builds the update [(height-1, prev_blockhash), (height, hash)]
\* (only (0, hash) at height 0) ...
BlockUpdate(blk, k) ==
    [j \in Heights |-> IF j = k THEN blk
                       ELSE IF j = k - 1 THEN PrevHash(blk) ELSE NoBlock]

\* ... and merges it into the wallet's chain as bdk's LocalChain does: walking both
\* chains from the tip down, an update block above the original is inserted, an
\* original block missing from the update may be invalidated, equal blocks are the
\* point of agreement, and a conflicting block replaces the original and purges
\* the original blocks above it; the update must connect to the original.
MergeStep(acc, orig, upd, k) ==
    LET o == orig[k]
        u == upd[k]
        updBelow == \E j \in Heights : j < k /\ upd[j] # NoBlock
    IN  IF acc.err \/ acc.stop \/ (o = NoBlock /\ u = NoBlock) THEN acc
        ELSE IF o = NoBlock
        THEN [acc EXCEPT !.chain[k] = u, !.prevUpd = TRUE]
        ELSE IF u = NoBlock
        THEN [acc EXCEPT !.pot = @ \cup {k}, !.inval = FALSE, !.prevOrig = TRUE,
                         !.stop = ~updBelow]
        ELSE IF o = u
        THEN IF ~acc.inval /\ ~acc.poa /\ acc.prevOrig /\ acc.prevUpd
               THEN [acc EXCEPT !.err = TRUE]
               ELSE [acc EXCEPT !.poa = TRUE, !.inval = FALSE,
                                !.prevOrig = TRUE, !.prevUpd = TRUE]
        ELSE [acc EXCEPT !.chain = [j \in Heights |->
                                       IF j = k THEN u
                                       ELSE IF j \in acc.pot THEN NoBlock
                                       ELSE acc.chain[j]],
                         !.pot = {}, !.inval = TRUE,
                         !.prevOrig = TRUE, !.prevUpd = TRUE]

RECURSIVE MergeFrom(_, _, _, _)
MergeFrom(acc, orig, upd, k) ==
    IF k < 0 THEN acc
    ELSE MergeFrom(MergeStep(acc, orig, upd, k), orig, upd, k - 1)

\* the result of merging: [ok, chain]
MergeChains(orig, upd) ==
    LET acc0 == [chain |-> orig, pot |-> {}, inval |-> FALSE, poa |-> FALSE,
                 prevOrig |-> FALSE, prevUpd |-> FALSE, err |-> FALSE, stop |-> FALSE]
        acc == MergeFrom(acc0, orig, upd, MaxHeight)
        bad == acc.err \/ (~acc.inval /\ ~acc.poa /\ acc.prevOrig)
    IN  [ok |-> ~bad, chain |-> IF bad THEN orig ELSE acc.chain]

\* wallet_guard.apply_block(&block, height)
\* variant of apply_block that refuses a block the chain already has
ApplyBlockOnce(chain, blk, k) ==
    IF chain[k] = blk THEN [ok |-> FALSE, chain |-> chain]
    ELSE MergeChains(chain, BlockUpdate(blk, k))
ApplyBlock(chain, blk, k) == MergeChains(chain, BlockUpdate(blk, k))

(***************************************************************************)
(* The wallet engine: WalletInterface and the RPC worker threads.          *)
(***************************************************************************)
Workers == 1..NumWorkers

\* the store file holds no wallet: the store is <<>>, or <<w>> with w persisted
NoWallet == <<>>

\* what Wallet::create persists and Wallet::load reads back: no address revealed
\* yet, the chain holding the genesis checkpoint only
NewWallet == [revealed |-> 0, chain |-> EmptyChain]

\* the address of the external descriptor at a derivation index
ExternalAddress(i) == <<"external", i>>

NoLoc == [wal |-> 0, idx |-> 0, before |-> 0, cut |-> FALSE,
          start |-> 0, stop |-> <<>>, last |-> 0, tipHash |-> NoBlock, res |-> <<>>,
          bal |-> <<>>]

\* what a get_block call of the sync loop may come back with: the block, an error
\* of the node, or an error because the transport was closed while it was in flight
FetchResults == {"block", "error", "closed"}

InitWalletVars ==
    /\ db = NoWallet
    /\ current = 0
    /\ inst = <<>>
    /\ lock = [i \in 1..MaxOps |-> 0]
    /\ pc = [w \in Workers |-> "idle"]
    /\ loc = [w \in Workers |-> NoLoc]
    /\ ops = 0
    /\ gnaLog = EmptyBag

\* get_current_wallet: the clone of the current pointer, or the error
\* Generic("No wallet loaded") when it is None
GetCurrentWalletOrFirst(ptr) == <<"ok", IF ptr = 0 THEN 1 ELSE ptr>>
GetCurrentWallet(ptr) == IF ptr = 0 THEN <<"err", "No wallet loaded">> ELSE <<"ok", ptr>>

\* wallet.lock(): the Mutex of wallet object i can be taken
MutexFreeNoLock(i) == TRUE
MutexFree(i) == lock[i] = 0

\* sync_wallet: `let start_height = wallet_tip.height() as i32 + 1`
SyncStartFromGenesis(cp) == 0
SyncStartHeight(cp) == cp.height + 1

\* Arc<ThreadSafeWallet>: a wallet object lives while the current pointer or a
\* worker's clone refers to it; when the last reference goes the object is dropped
Dropped == [revealed |-> 0, chain |-> EmptyChain]
Collect(objs, ptr, l) ==
    [i \in DOMAIN objs |->
        IF i = ptr \/ \E w \in Workers : l[w].wal = i THEN objs[i] ELSE Dropped]

\* the history keeps what was handed out on the wallet objects that are still
\* alive (an address stays in it at least until the step after its return)
CollectLog(log, ptr, l) ==
    LET alive == {e \in BagToSet(log) : e.wal = ptr \/ \E w \in Workers : l[w].wal = e.wal}
    IN  [e \in alive |-> log[e]]

\* an idle RPC worker thread picks up the next request; the threads of the pool
\* are interchangeable, so it is the first idle one that takes it
Begin(w) ==
    /\ pc[w] = "idle"
    /\ \A v \in Workers : v < w => pc[v] # "idle"
    /\ ops < MaxOps
    /\ ops' = ops + 1

\* the operation of worker w returns
Return(w) ==
    /\ pc' = [pc EXCEPT ![w] = "idle"]
    /\ loc' = [loc EXCEPT ![w] = NoLoc]

Goto(w, label, l) ==
    /\ pc' = [pc EXCEPT ![w] = label]
    /\ loc' = [loc EXCEPT ![w] = l]

\* database.create_wallet: the new persisted wallet, or an error when the store
\* already holds one
DatabaseCreateWalletOverwrite(store) == <<"ok", NewWallet>>
DatabaseCreateWallet(store) ==
    IF store # NoWallet THEN <<"err", "Failed to create wallet">> ELSE <<"ok", NewWallet>>

\* database.load_wallet: the persisted wallet, or an error when the store is empty
DatabaseLoadWallet(store) ==
    IF store = NoWallet THEN <<"err", "No wallet found in database">> ELSE <<"ok", store[1]>>

\* `*current_wallet = Some(wallet)` under the write lock
KeepCurrent(ptr, wal) == ptr
InstallCurrent(ptr, wal) == wal

\* create_wallet: database.create_wallet persists a new wallet, or fails when the
\* store already holds one
CreateStore(w) ==
    /\ Begin(w)
    /\ IF DatabaseCreateWallet(db)[1] = "err"
         THEN /\ Return(w)
              /\ UNCHANGED <<db, inst>>
         ELSE /\ db' = <<NewWallet>>
              /\ inst' = Append(inst, NewWallet)
              /\ Goto(w, "create_set", [loc[w] EXCEPT !.wal = Len(inst) + 1])
    /\ UNCHANGED <<current, lock, gnaLog>>
    /\ UNCHANGED <<nvars, tvars, qvars>>

\* the "descriptors" parameter of createwallet as the request carries it
DescriptorsParams == {"absent", "true", "false"}

\* parse_create_wallet_options: CreateWalletOptions::default() has
\* descriptors = true, and a boolean given in the request overwrites it
ParseCreateWalletOptions(param) == [descriptors |-> (param # "false")]

\* the createwallet RPC: the parsed options are handed to
\* WalletInterface::create_wallet, which reads options.blank to choose the
\* descriptor strings and no other field
CreateWallet(w, options) == CreateStore(w)

\* create_wallet: `*current_wallet = Some(wallet)` under the write lock
CreateSetCurrent(w) ==
    /\ pc[w] = "create_set"
    /\ current' = loc[w].wal
    /\ Return(w)
    /\ inst' = Collect(inst, current', loc')
    /\ gnaLog' = CollectLog(gnaLog, current', loc')
    /\ UNCHANGED <<db, lock, ops>>
    /\ UNCHANGED <<nvars, tvars, qvars>>

\* load_wallet: database.load_wallet reads the persisted wallet into a new object
LoadStore(w) ==
    /\ Begin(w)
    /\ IF db = NoWallet
         THEN /\ Return(w)
              /\ UNCHANGED inst
         ELSE /\ inst' = Append(inst, db[1])
              /\ Goto(w, "load_set", [loc[w] EXCEPT !.wal = Len(inst) + 1])
    /\ UNCHANGED <<db, current, lock, gnaLog>>
    /\ UNCHANGED <<nvars, tvars, qvars>>

\* load_wallet: `*current_wallet = Some(wallet)`, then `self.sync_wallet().await`
LoadSetCurrent(w) ==
    /\ pc[w] = "load_set"
    /\ current' = InstallCurrent(current, loc[w].wal)
    /\ Goto(w, "sync_wallet", NoLoc)
    /\ inst' = Collect(inst, current', loc')
    /\ gnaLog' = CollectLog(gnaLog, current', loc')
    /\ UNCHANGED <<db, lock, ops>>
    /\ UNCHANGED <<nvars, tvars, qvars>>

\* another get_new_address call on the same wallet object is in progress
Overlapped(w) ==
    \E v \in Workers \ {w} : pc[v] \in {"gna_lock", "gna_write"} /\ loc[v].wal = loc[w].wal

\* get_new_address: get_current_wallet clones the current pointer
GnaGetCurrent(w) ==
    /\ Begin(w)
    /\ IF GetCurrentWallet(current)[1] = "err"
         THEN Return(w)
         ELSE Goto(w, "gna_lock", [loc[w] EXCEPT !.wal = GetCurrentWallet(current)[2]])
    /\ UNCHANGED <<db, current, inst, lock, gnaLog>>
    /\ UNCHANGED <<nvars, tvars, qvars>>

\* get_new_address: `wallet.lock().unwrap()`; reveal_next_address then reads the
\* next unrevealed derivation index ...
GnaLock(w) ==
    /\ pc[w] = "gna_lock"
    /\ MutexFree(loc[w].wal)
    /\ lock' = [lock EXCEPT ![loc[w].wal] = w]
    /\ Goto(w, "gna_write", [loc[w] EXCEPT !.idx = inst[loc[w].wal].revealed])
    /\ UNCHANGED <<db, current, inst, ops, gnaLog>>
    /\ UNCHANGED <<nvars, tvars, qvars>>

\* ... and marks it revealed in the wallet object; nothing is persisted (the
\* persist call is commented out); the guard is dropped and the address returned
GnaWrite(w) ==
    /\ pc[w] = "gna_write"
    /\ lock' = [lock EXCEPT ![loc[w].wal] = 0]
    /\ Return(w)
    /\ inst' = Collect([inst EXCEPT ![loc[w].wal].revealed = loc[w].idx + 1],
                       current, loc')
    /\ gnaLog' = gnaLog (+) SetToBag({[wal |-> loc[w].wal,
                                       addr |-> ExternalAddress(loc[w].idx),
                                       conc |-> Overlapped(w)]})
    /\ UNCHANGED <<db, current, ops>>
    /\ UNCHANGED <<nvars, tvars, qvars>>

\* sync_wallet, called by a request or at the end of load_wallet: get_blocktalk
\* opens a connection of its own (BlockTalk::init), then get_tip; either may fail.
\* Then get_current_wallet clones the current pointer (before: the height of that
\* wallet's checkpoint at this point, kept for the record).
SyncGetTip(w, ok) ==
    /\ \/ Begin(w)
       \/ pc[w] = "sync_wallet" /\ UNCHANGED ops
    /\ IF ok /\ current # 0
         THEN Goto(w, "sync_lock",
                   [loc[w] EXCEPT !.wal = current,
                                  !.before = LatestCheckpoint(inst[current].chain).height])
         ELSE Return(w)
    /\ UNCHANGED <<db, current, inst, lock, gnaLog>>
    /\ UNCHANGED <<nvars, tvars, qvars>>

\* the loop of sync_wallet from height h on: get_block(&tip_hash, h) comes back
\* with a block, with an error of the node, or with an error because the transport
\* was closed while the call was in flight; once the transport is closed (up is
\* false) every later call fails.  `if let Ok(block)` applies a block and skips an
\* error; a block that cannot be applied ends the loop with that error.
\* The set of the outcomes [ok, chain, up] the loop can have.
RECURSIVE SyncLoop(_, _, _, _, _)
SyncLoop(chain, h, up, tipH, tipHash) ==
    IF h > tipH \/ ~up THEN {[ok |-> TRUE, chain |-> chain, up |-> up]}
    ELSE LET r == ApplyBlock(chain, AncestorAt(tipHash, h), h)
         IN  UNION {
               CASE res = "block" ->
                      IF r.ok THEN SyncLoop(r.chain, h + 1, up, tipH, tipHash)
                      ELSE {[ok |-> FALSE, chain |-> chain, up |-> up]}
                 [] res = "error" -> SyncLoop(chain, h + 1, up, tipH, tipHash)
                 [] res = "closed" -> SyncLoop(chain, h + 1, FALSE, tipH, tipHash)
               : res \in FetchResults }

\* the (tip_height, tip_hash) pair of get_tip: block b of height k
TipOf(k, b) == IF k = 0 THEN Genesis ELSE <<k, b>>

\* no get_tip call in progress and none made yet
\* (atHeight, atHash: history, the node's tip when it answered get_height and
\* when it answered get_block_hash)
NoTipCall ==
    [pc |-> "idle", height |-> 0, asked |-> 0, changed |-> FALSE, res |-> <<>>,
     atHeight |-> Genesis, atHash |-> Genesis]

\* the node at genesis, no request sent yet
InitNodeVars ==
    /\ nodeTip = Genesis
    /\ gt = NoTipCall
    /\ sent = <<>>
    /\ done = <<>>

\* sync_wallet: `wallet.lock().unwrap()`, latest_checkpoint, start_height and the
\* loop, all under the guard.  (tip_height, tip_hash) is what get_tip answered:
\* get_height some height k of the node's chain and get_block_hash(k) the block the
\* node had at that height by then.  The node's chain is not part of this
\* specification, so the answer ranges over everything a node may answer; it is a
\* local value that no other thread sees, and it is drawn here, where the thread
\* first uses it.  The turns of the loop touch the locked wallet object and the
\* thread's own connection only, so they are taken in one step; an apply error
\* returns at once and drops the guard.
SyncApplyBlocks(w, k, b) ==
    /\ pc[w] = "sync_lock"
    /\ MutexFree(loc[w].wal)
    /\ LET l == loc[w]
           tipHash == TipOf(k, b)
           cp == LatestCheckpoint(inst[l.wal].chain)
       IN  \E out \in SyncLoop(inst[l.wal].chain, SyncStartHeight(cp), TRUE, k, tipHash) :
             IF out.ok
               THEN /\ lock' = [lock EXCEPT ![l.wal] = w]
                    /\ Goto(w, "sync_ok", [l EXCEPT !.cut = ~out.up])
                    /\ inst' = [inst EXCEPT ![l.wal].chain = out.chain]
                    /\ UNCHANGED gnaLog
               ELSE /\ Return(w)
                    /\ inst' = Collect([inst EXCEPT ![l.wal].chain = out.chain],
                                       current, loc')
                    /\ gnaLog' = CollectLog(gnaLog, current, loc')
                    /\ UNCHANGED lock
    /\ UNCHANGED <<db, current, ops>>
    /\ UNCHANGED <<nvars, tvars, qvars>>

\* the loop is over: sync_wallet returns Ok(()) and drops the guard
SyncDone(w) ==
    /\ pc[w] = "sync_ok"
    /\ lock' = [lock EXCEPT ![loc[w].wal] = 0]
    /\ Return(w)
    /\ inst' = Collect(inst, current, loc')
    /\ gnaLog' = CollectLog(gnaLog, current, loc')
    /\ UNCHANGED <<db, current, ops>>
    /\ UNCHANGED <<nvars, tvars, qvars>>

NextWallet ==
    \/ \E w \in Workers, p \in DescriptorsParams :
          CreateWallet(w, ParseCreateWalletOptions(p))
    \/ \E w \in Workers : CreateSetCurrent(w)
    \/ \E w \in Workers : LoadStore(w)
    \/ \E w \in Workers : LoadSetCurrent(w)
    \/ \E w \in Workers : GnaGetCurrent(w)
    \/ \E w \in Workers : GnaLock(w)
    \/ \E w \in Workers : GnaWrite(w)
    \/ \E w \in Workers, ok \in BOOLEAN : SyncGetTip(w, ok)
    \/ \E w \in Workers, k \in Heights, b \in Branches : SyncApplyBlocks(w, k, b)
    \/ \E w \in Workers : SyncDone(w)

NextNotif ==
    \/ \E h \in HandlerIds : AddNotificationHandler(h)
    \/ BeginChainUpdates
    \/ \E e \in EventIds, m \in Methods, dec \in BOOLEAN : InboundCall(e, m, dec)
    \/ \E e \in EventIds : InvokeHandler(e)
    \/ \E e \in EventIds : HandlerSuspend(e)
    \/ \E e \in EventIds : HandlerResume(e)
    \/ \E e \in EventIds, ok \in BOOLEAN : HandlerReturn(e, ok)
    \/ \E e \in EventIds : DispatchEnd(e)

InitNotif == InitNotifVars /\ InitWalletVars /\ InitConnVars /\ InitNodeVars

SpecNotif == InitNotif /\ [][NextNotif]_vars

InitWallet == InitNotifVars /\ InitWalletVars /\ InitConnVars /\ InitNodeVars

SpecWallet == InitWallet /\ [][NextWallet]_vars

(***************************************************************************)
(* rescan_blockchain and get_balance, asked for by one client that waits   *)
(* for each reply before it sends the next request.                        *)
(***************************************************************************)
\* the requests of worker w are the only ones in progress
Alone(w) == \A v \in Workers \ {w} : pc[v] = "idle"

\* rescan_blockchain(start_height, stop_height): the heights a request may name
\* (one below genesis included) and the optional stop height (<<>> is None)
StartArgs == -1..MaxHeight
StopArgs == {<<>>} \cup {<<e>> : e \in -1..MaxHeight}

\* `std::cmp::min(stop_height.unwrap_or(tip_height), tip_height)`
ActualStop(stop, tipH) ==
    LET e == IF stop = <<>> THEN tipH ELSE stop[1]
    IN  IF e < tipH THEN e ELSE tipH

\* the heights of a range at which the node has a block to answer with
Fetchable(start, last) == {h \in Heights : start <= h /\ h <= last}

\* what the loop does with the answer of get_block: `if let Ok(block)` applies
\* the block, `else` logs a warning and goes on with the next height
AfterFetchFailFast(res) == IF res = "block" THEN "apply" ELSE "return"
AfterFetch(res) == IF res = "block" THEN "apply" ELSE "skip"

\* rescan_blockchain: `for height in start_height..=actual_stop_height` from
\* height h on, res[h] being the answer of get_block at h (there is no block
\* below genesis: the call fails).  The result is [ok, chain].
RECURSIVE RescanLoop(_, _, _, _, _)
RescanLoop(chain, h, last, tipHash, res) ==
    IF h > last THEN [ok |-> TRUE, chain |-> chain]
    ELSE LET todo == AfterFetch(IF h \in DOMAIN res THEN res[h] ELSE "error")
         IN  IF todo = "skip" THEN RescanLoop(chain, h + 1, last, tipHash, res)
             ELSE IF todo = "return" THEN [ok |-> FALSE, chain |-> chain]
             ELSE LET r == ApplyBlock(chain, AncestorAt(tipHash, h), h)
                  IN  IF r.ok THEN RescanLoop(r.chain, h + 1, last, tipHash, res)
                      ELSE [ok |-> FALSE, chain |-> chain]

\* rescan_blockchain: get_blocktalk and get_tip (either may fail), then
\* get_current_wallet
RescanGetTip(w, ok, s, e) ==
    /\ Begin(w)
    /\ IF ok /\ current # 0
         THEN Goto(w, "rescan_lock", [loc[w] EXCEPT !.wal = current, !.start = s, !.stop = e])
         ELSE Return(w)
    /\ UNCHANGED <<db, current, inst, lock, gnaLog>>
    /\ UNCHANGED <<nvars, tvars, qvars>>

\* rescan_blockchain: actual_stop_height, `wallet.lock().unwrap()` and the loop
\* under the guard; (k, b) is the tip get_tip answered and res the answers of
\* get_block, drawn here as in sync_wallet.  An apply error returns at once.
RescanApplyBlocks(w, k, b) ==
    /\ pc[w] = "rescan_lock"
    /\ MutexFree(loc[w].wal)
    /\ LET l == loc[w]
           last == ActualStop(l.stop, k)
       IN  \E res \in [Fetchable(l.start, last) -> {"block", "error"}] :
             LET out == RescanLoop(inst[l.wal].chain, l.start, last, TipOf(k, b), res)
             IN  IF out.ok
                   THEN /\ lock' = [lock EXCEPT ![l.wal] = w]
                        /\ Goto(w, "rescan_ok", [l EXCEPT !.last = last,
                                                          !.tipHash = TipOf(k, b),
                                                          !.res = res])
                        /\ inst' = [inst EXCEPT ![l.wal].chain = out.chain]
                        /\ UNCHANGED gnaLog
                   ELSE /\ Return(w)
                        /\ inst' = Collect([inst EXCEPT ![l.wal].chain = out.chain],
                                           current, loc')
                        /\ gnaLog' = CollectLog(gnaLog, current, loc')
                        /\ UNCHANGED lock
    /\ UNCHANGED <<db, current, ops>>
    /\ UNCHANGED <<nvars, tvars, qvars>>

\* rescan_blockchain: Ok((start_height, actual_stop_height)) and drop of the guard
RescanDone(w) ==
    /\ pc[w] = "rescan_ok"
    /\ lock' = [lock EXCEPT ![loc[w].wal] = 0]
    /\ Return(w)
    /\ inst' = Collect(inst, current, loc')
    /\ gnaLog' = CollectLog(gnaLog, current, loc')
    /\ UNCHANGED <<db, current, ops>>
    /\ UNCHANGED <<nvars, tvars, qvars>>

\* the wallet's unspent outputs and balance, as bdk derives them from the blocks
\* of the wallet's chain: every block above genesis that was applied is on the
\* chain with its transactions, and a block that left the chain takes its
\* outputs with it.  Each block pays the wallet one output of one unit.
ListUnspent(chain) == {chain[k] : k \in {j \in 1..MaxHeight : chain[j] # NoBlock}}
ConfirmedOf(chain) == Cardinality(ListUnspent(chain))

\* amounts of a bdk Balance
Amounts == 0..MaxAmount

\* get_balance: the WalletBalance built from wallet_guard.balance()
WalletBalanceNoImmature(bb) ==
    [confirmed |-> bb.confirmed, unconfirmed |-> bb.untrusted_pending,
     immature |-> bb.immature,
     total |-> bb.confirmed + bb.untrusted_pending]
WalletBalance(bb) ==
    [confirmed |-> bb.confirmed, unconfirmed |-> bb.untrusted_pending,
     immature |-> bb.immature,
     total |-> bb.confirmed + bb.untrusted_pending + bb.immature]

\* get_balance: get_current_wallet, lock, balance() and the conversion; the
\* pending and immature amounts bdk reports are not derived from the model's
\* chain and range over all amounts
GetBalance(w, tp, up, im) ==
    /\ Begin(w)
    /\ IF current # 0 /\ MutexFree(current)
         THEN Goto(w, "balance_ok",
                   [loc[w] EXCEPT !.wal = current,
                       !.bal = <<WalletBalance([confirmed |-> ConfirmedOf(inst[current].chain),
                                                trusted_pending |-> tp,
                                                untrusted_pending |-> up,
                                                immature |-> im])>>])
         ELSE current = 0 /\ Return(w)
    /\ UNCHANGED <<db, current, inst, lock, gnaLog>>
    /\ UNCHANGED <<nvars, tvars, qvars>>

\* get_balance returns Ok(WalletBalance)
GetBalanceDone(w) ==
    /\ pc[w] = "balance_ok"
    /\ Return(w)
    /\ inst' = Collect(inst, current, loc')
    /\ gnaLog' = CollectLog(gnaLog, current, loc')
    /\ UNCHANGED <<db, current, lock, ops>>
    /\ UNCHANGED <<nvars, tvars, qvars>>

NextRescan ==
    \/ \E w \in Workers : Alone(w) /\ CreateStore(w)
    \/ \E w \in Workers : Alone(w) /\ CreateSetCurrent(w)
    \/ \E w \in Workers, ok \in BOOLEAN : Alone(w) /\ SyncGetTip(w, ok)
    \/ \E w \in Workers, k \in Heights, b \in Branches : Alone(w) /\ SyncApplyBlocks(w, k, b)
    \/ \E w \in Workers : Alone(w) /\ SyncDone(w)
    \/ \E w \in Workers, ok \in BOOLEAN, s \in StartArgs, e \in StopArgs :
          Alone(w) /\ RescanGetTip(w, ok, s, e)
    \/ \E w \in Workers, k \in Heights, b \in Branches : Alone(w) /\ RescanApplyBlocks(w, k, b)
    \/ \E w \in Workers : Alone(w) /\ RescanDone(w)
    \/ \E w \in Workers, tp \in Amounts, up \in Amounts, im \in Amounts :
          Alone(w) /\ GetBalance(w, tp, up, im)
    \/ \E w \in Workers : Alone(w) /\ GetBalanceDone(w)

InitRescan == InitNotifVars /\ InitWalletVars /\ InitConnVars /\ InitNodeVars

SpecRescan == InitRescan /\ [][NextRescan]_vars

(***************************************************************************)
(* Claims about the notification service (checked under SpecNotif).        *)
(***************************************************************************)
\* an event that went through dispatch_notification and has been replied to
Dispatched(e) ==
    ev[e].st = "done" /\ ev[e].kind # "ack" /\ ev[e].decoded

\* C1: when a handler returns an error during the dispatch of an event, every
\* handler registered after it is still invoked for that event.
C1_LaterHandlersStillInvoked ==
    \A e \in EventIds : Dispatched(e) =>
        \A i \in 1..Len(ev[e].rets) : ev[e].rets[i] = "err" =>
            \A j \in (i + 1)..Len(ev[e].regs) : ev[e].regs[j] \in Range(ev[e].calls)

\* C2: the reply of an inbound notification method is an error exactly when the
\* payload could not be decoded (a failing handler never makes it an error), and
\* on a decode failure no handler is invoked.
C2_ReplyErrOnlyOnDecodeFailure ==
    \A e \in EventIds : ev[e].st = "done" =>
        /\ (ev[e].reply = "err" <=> ~ev[e].decoded)
        /\ (~ev[e].decoded => ev[e].calls = <<>>)

\* C3: two events are never processed concurrently: no handler is invoked for a
\* later event while an earlier event is still being dispatched.
C3_EventsNeverConcurrent ==
    \A e1, e2 \in EventIds :
        (e1 < e2 /\ ev[e1].st = "dispatch") => ev[e2].calls = <<>>

\* C4: a handler whose registration returned before the dispatch of an event
\* started is invoked for that event, whenever the registration happened.
C4_RegisteredHandlerObservesLaterEvents ==
    \A e \in EventIds : Dispatched(e) =>
        \A h \in Range(ev[e].regs) : h \in Range(ev[e].calls)

\* C5: for each dispatched event the handlers are invoked one at a time in
\* registration order: the i-th invocation is the i-th registered handler, and
\* a handler is invoked only after the one before it has returned.
C5_SequentialInRegistrationOrder ==
    \A e \in EventIds :
        /\ Len(ev[e].calls) <= Len(ev[e].regs)
        /\ \A i \in 1..Len(ev[e].calls) : ev[e].calls[i] = ev[e].regs[i]
        /\ Len(ev[e].rets) <= Len(ev[e].calls)
        /\ Len(ev[e].calls) <= Len(ev[e].rets) + 1
        /\ (ev[e].inH <=> Len(ev[e].calls) = Len(ev[e].rets) + 1)

\* an event dispatched while two handlers were registered: both were invoked,
\* both returned Ok, and the peer got its reply
C5_Witness ==
    \E e \in EventIds :
        /\ ev[e].st = "done"
        /\ Len(ev[e].regs) >= 2
        /\ Len(ev[e].calls) = Len(ev[e].regs)
        /\ ev[e].reply = "ok"


(***************************************************************************)
(* Claims on the wallet engine.                                            *)
(***************************************************************************)

\* C6: after any number of get_new_address calls the derivation counter
\* persisted in the wallet store covers every address that was returned, so a
\* wallet reloaded from the store never hands out a returned address again.
C6_PersistedCounterCoversReturned ==
    \A e \in BagToSet(gnaLog) : db # NoWallet /\ e.addr[2] < db[1].revealed

\* C7: for any interleaving of concurrent get_new_address calls against the same
\* wallet, no two calls return the same address.
C7_NoTwoCallsSameAddress ==
    \A e1, e2 \in BagToSet(gnaLog) :
        /\ CopiesIn(e1, gnaLog) = 1
        /\ (e1.wal = e2.wal /\ e1.addr = e2.addr) => e1 = e2

\* two calls on one wallet have returned, the first while the second was in progress
C7_Witness ==
    \E e1, e2 \in BagToSet(gnaLog) :
        e1.wal = e2.wal /\ e1.addr # e2.addr /\ e1.conc

\* C8: checkpoint monotonicity: when a sync_wallet call returns success, the
\* height of the wallet's checkpoint is at least what it was when the call took
\* the wallet.
C8_CheckpointMonotonic ==
    \A w \in Workers :
        pc[w] = "sync_ok" => TipHeight(inst[loc[w].wal].chain) >= loc[w].before

\* a sync on a wallet that was already above genesis is about to return success,
\* having advanced the checkpoint
C8_Witness ==
    \E w \in Workers :
        /\ pc[w] = "sync_ok"
        /\ loc[w].before > 0
        /\ TipHeight(inst[loc[w].wal].chain) > loc[w].before

\* C9: when sync_wallet returns success, the wallet's checkpoint equals the
\* (tip_h, tip_hash) pair that get_tip returned at the start of that sync.
C9_SuccessEndsAtTip ==
    [][\A w \in Workers, k \in Heights, b \in Branches :
          SyncApplyBlocks(w, k, b) /\ pc'[w] = "sync_ok"
          => LatestCheckpoint(inst'[loc[w].wal].chain)
               = [height |-> k, hash |-> TipOf(k, b)]]_vars

\* C10: a sync_wallet during which the transport was closed with a get_block
\* call in flight does not return success.
C10_ClosedTransportFailsSync ==
    \A w \in Workers : pc[w] = "sync_ok" => ~loc[w].cut

\* C11: after sync_wallet returns success the checkpoint in the wallet store
\* equals the checkpoint of the wallet in memory, so that a restart followed by
\* load_wallet resumes from it.
C11_StoredCheckpointIsMemoryCheckpoint ==
    \A w \in Workers :
        pc[w] = "sync_ok" =>
            /\ db # NoWallet
            /\ LatestCheckpoint(db[1].chain) = LatestCheckpoint(inst[loc[w].wal].chain)

(***************************************************************************)
(* Claims about rescan_blockchain and get_balance (checked under           *)
(* SpecRescan).                                                            *)
(***************************************************************************)
\* C12: in sync_wallet and rescan_blockchain a failed fetch of the block at
\* height h does not end the operation with an error at h: the loop goes on
\* with h+1 and the rest of the range, the wallet being as it was before h.
\* For sync_wallet every outcome of the loop from h+1 on is an outcome of the
\* loop from h on; for rescan_blockchain the loop from h on with a failed fetch
\* at h ends as the loop from h+1 on does.
C12_FailedFetchIsSkipped ==
    \A w \in Workers, k \in Heights, b \in Branches :
        /\ pc[w] = "sync_lock" =>
               LET c == inst[loc[w].wal].chain
               IN  \A h \in SyncStartHeight(LatestCheckpoint(c))..k :
                       SyncLoop(c, h + 1, TRUE, k, TipOf(k, b))
                           \subseteq SyncLoop(c, h, TRUE, k, TipOf(k, b))
        /\ pc[w] = "rescan_lock" =>
               LET c == inst[loc[w].wal].chain
                   last == ActualStop(loc[w].stop, k)
               IN  \A res \in [Fetchable(loc[w].start, last) -> {"block", "error"}] :
                     \A h \in loc[w].start..last :
                        (h \in DOMAIN res => res[h] = "error") =>
                            RescanLoop(c, h, last, TipOf(k, b), res)
                                = RescanLoop(c, h + 1, last, TipOf(k, b), res)

\* a rescan that got no block at height h and the block at h+1, applied it and
\* is about to return success
C12_Witness ==
    \E w \in Workers :
        /\ pc[w] = "rescan_ok"
        /\ \E h \in DOMAIN loc[w].res :
              /\ loc[w].res[h] = "error"
              /\ h + 1 \in DOMAIN loc[w].res
              /\ loc[w].res[h + 1] = "block"
              /\ inst[loc[w].wal].chain[h + 1] = AncestorAt(loc[w].tipHash, h + 1)

\* C13: rescan_blockchain(start, stop) with start < 0 or with the clamped stop
\* below start never returns a success pair: a rescan about to return
\* Ok((start_height, actual_stop_height)) has 0 <= start_height <= actual_stop_height.
C13_BadRangeNeverSucceeds ==
    \A w \in Workers :
        pc[w] = "rescan_ok" => 0 <= loc[w].start /\ loc[w].start <= loc[w].last

\* C14: rescan idempotence.  When rescan_blockchain(s, e) has run to success,
\* running it again on the wallet it left, with the node answering as it did
\* (same tip, same blocks), succeeds too and leaves the same unspent outputs and
\* the same balance.
C14_RescanIdempotent ==
    \A w \in Workers :
        pc[w] = "rescan_ok" =>
            LET l == loc[w]
                c == inst[l.wal].chain
                again == RescanLoop(c, l.start, l.last, l.tipHash, l.res)
            IN  /\ again.ok
                /\ ListUnspent(again.chain) = ListUnspent(c)
                /\ ConfirmedOf(again.chain) = ConfirmedOf(c)
                /\ LatestCheckpoint(again.chain) = LatestCheckpoint(c)

\* a rescan that applied a block above genesis and is about to return success
C14_Witness ==
    \E w \in Workers :
        /\ pc[w] = "rescan_ok"
        /\ \E h \in DOMAIN loc[w].res :
              /\ h >= 1
              /\ loc[w].res[h] = "block"
              /\ AncestorAt(loc[w].tipHash, h) \in ListUnspent(inst[loc[w].wal].chain)

\* C15: every WalletBalance get_balance returns has
\* total = confirmed + unconfirmed + immature.
C15_TotalIsSumOfParts ==
    \A w \in Workers :
        pc[w] = "balance_ok" =>
            LET wb == loc[w].bal[1]
            IN  wb.total = wb.confirmed + wb.unconfirmed + wb.immature

\* get_balance about to return a balance with all three parts positive
C15_Witness ==
    \E w \in Workers :
        /\ pc[w] = "balance_ok"
        /\ loc[w].bal[1].confirmed > 0
        /\ loc[w].bal[1].unconfirmed > 0
        /\ loc[w].bal[1].immature > 0

(***************************************************************************)
(* Claims about the current-wallet pointer (checked under SpecWallet).     *)
(***************************************************************************)
\* C16: the current-wallet pointer moves only by a create_wallet or load_wallet
\* that succeeds: a load_wallet that has switched the pointer and goes into its
\* sync does not return from there with an error.
C16_PointerMovesOnlyOnSuccess ==
    [][\A w \in Workers : pc[w] = "sync_wallet" => pc'[w] # "idle"]_vars

(***************************************************************************)
(* The wallet engine and the notification service in one process: a client *)
(* creates wallets while the node announces blocks.  Every inbound call is  *)
(* block_connected(b), b being the block that follows the checkpoint of the *)
(* current wallet on the node's chain.  No handler the wallet registers     *)
(* touches the wallet: WalletNotificationHandler has no NotificationHandler *)
(* implementation, so the handlers of a dispatch are the caller's own and   *)
(* the notification actions leave the wallet state as it is.               *)
(***************************************************************************)
NextEngine ==
    \/ \E w \in Workers : Alone(w) /\ CreateStore(w)
    \/ \E w \in Workers : Alone(w) /\ CreateSetCurrent(w)
    \/ \E h \in HandlerIds : AddNotificationHandler(h)
    \/ BeginChainUpdates
    \/ \E e \in EventIds, dec \in BOOLEAN : InboundCall(e, "block_connected", dec)
    \/ \E e \in EventIds : InvokeHandler(e)
    \/ \E e \in EventIds : HandlerSuspend(e)
    \/ \E e \in EventIds : HandlerResume(e)
    \/ \E e \in EventIds, ok \in BOOLEAN : HandlerReturn(e, ok)
    \/ \E e \in EventIds : DispatchEnd(e)

InitEngine == InitNotifVars /\ InitWalletVars /\ InitConnVars /\ InitNodeVars

\* the executor polls every task that is ready, so a step that stays possible
\* is taken
SpecEngine == InitEngine /\ [][NextEngine]_vars /\ WF_vars(NextEngine)

\* C17: with a wallet current at checkpoint (h, hash), a handler registered and
\* chain updates begun, a block_connected(b) of the block that follows the
\* checkpoint and pays the wallet is followed by a state where the checkpoint
\* height is h+1 and the wallet lists the output of b as unspent and counts it
\* in its confirmed balance (h is 0 here: the wallets are new).
C17_BlockConnectedReachesWallet ==
    \A e \in EventIds :
        (ev[e].st = "dispatch" /\ ev[e].snapshot # <<>> /\ current # 0)
            ~> (/\ current # 0
                /\ LatestCheckpoint(inst[current].chain).height >= 1
                /\ ListUnspent(inst[current].chain) # {}
                /\ ConfirmedOf(inst[current].chain) >= 1)

(***************************************************************************)
(* The transport: Connection::connect, the driver task of the rpc system,  *)
(* requests on the connection, I/O failure and Connection::disconnect.     *)
(* The rpc system is capnp-rpc's: on a read or write error, and on a       *)
(* disconnect asked for through the Disconnector, it rejects every         *)
(* outstanding question, fails later calls at once and its future ends.    *)
(***************************************************************************)
\* the providers of the repository: UnixConnectionProvider and the tests'
\* MockConnectionProvider, whose create_rpc is unimplemented!()
Providers == {"unix", "mock"}

\* the `?` after a setup step: go on with the next step or return the error
AfterStepIgnoreError(ok) == "continue"
AfterStep(ok) == IF ok THEN "continue" ELSE "return"

\* one setup step of connect that may fail: the call is issued, and its result
\* decides between the next step and the return of its error
SetupStep(step, ok, next) ==
    /\ cstep = step
    /\ calls' = Append(calls, [step |-> step, ok |-> ok])
    /\ IF AfterStep(ok) = "continue"
         THEN cstep' = next /\ cres' = IF next = "ready" THEN <<"connection">> ELSE cres
         ELSE cstep' = "returned" /\ cres' = <<"err", step>>

\* the state a request is in when a client sends it: a question on a live
\* connection, or an error at once on a connection the rpc system has given up
IssueStatus(l) == IF l \in {"up", "broken"} THEN "pending" ELSE "disconnected_at_send"

\* the rpc system gives up the connection: every outstanding question is
\* rejected with err
RejectNone(rs, err) == rs
RejectAll(rs, err) == [r \in ReqIds |-> IF rs[r] = "pending" THEN err ELSE rs[r]]

\* connect: provider.create_network(socket_path).await?
ConnectCreateNetwork(ok) ==
    /\ SetupStep("create_network", ok, "create_rpc")
    /\ UNCHANGED <<driver, link, reqs, disc>>
    /\ UNCHANGED <<holders, nvars, wvars, qvars>>

\* connect: provider.create_rpc(network) and provider.spawn_rpc(rpc); the mock
\* provider panics in create_rpc
ConnectCreateRpc(p) ==
    /\ cstep = "create_rpc"
    /\ calls' = Append(calls, [step |-> "create_rpc", ok |-> p = "unix"])
    /\ IF p = "unix"
         THEN /\ cstep' = "create_clients"
              /\ driver' = "running"
              /\ link' = "up"
              /\ UNCHANGED cres
         ELSE /\ cstep' = "returned"
              /\ cres' = <<"panic", "create_rpc">>
              /\ UNCHANGED <<driver, link>>
    /\ UNCHANGED <<reqs, disc>>
    /\ UNCHANGED <<holders, nvars, wvars, qvars>>

\* connect: provider.create_clients(&init_interface).await?; on failure the
\* JoinHandle of the driver is dropped and the task runs on, detached
ConnectCreateClients(ok) ==
    /\ ok => link = "up"
    /\ SetupStep("create_clients", ok, "make_mining")
    /\ UNCHANGED <<driver, link, reqs, disc>>
    /\ UNCHANGED <<holders, nvars, wvars, qvars>>

\* connect: mk_mining_req.send().promise.await? and get_result()?
ConnectMakeMining(ok) ==
    /\ ok => link = "up"
    /\ SetupStep("make_mining", ok, "create_new_block")
    /\ UNCHANGED <<driver, link, reqs, disc>>
    /\ UNCHANGED <<holders, nvars, wvars, qvars>>

\* connect: create_block_req.send().promise.await?, get_result()? and
\* Ok(Arc::new(Connection { .. }))
ConnectCreateNewBlock(ok) ==
    /\ ok => link = "up"
    /\ SetupStep("create_new_block", ok, "ready")
    /\ holders' = IF AfterStep(ok) = "continue" THEN 1 ELSE holders
    /\ UNCHANGED <<driver, link, reqs, disc>>
    /\ UNCHANGED <<nvars, wvars, qvars>>

\* a client sends a request through a capability of the connection (clones of
\* the clients outlive the Connection itself)
IssueRequest(r) ==
    /\ cstep = "ready"
    /\ reqs[r] = "none"
    /\ reqs' = [reqs EXCEPT ![r] = IssueStatus(link)]
    /\ UNCHANGED <<cstep, calls, cres, driver, link, disc>>
    /\ UNCHANGED <<holders, nvars, wvars, qvars>>

\* the node answers and the driver hands the answer to the request
AnswerRequest(r) ==
    /\ reqs[r] = "pending"
    /\ link = "up"
    /\ driver = "running"
    /\ reqs' = [reqs EXCEPT ![r] = "ok"]
    /\ UNCHANGED <<cstep, calls, cres, driver, link, disc>>
    /\ UNCHANGED <<holders, nvars, wvars, qvars>>

\* the socket fails: the node went away or a read or write returned an error
IoFailure ==
    /\ link = "up"
    /\ link' = "broken"
    /\ UNCHANGED <<cstep, calls, cres, driver, reqs, disc>>
    /\ UNCHANGED <<holders, nvars, wvars, qvars>>

\* what becomes of the connection when the driver meets an I/O failure: nothing
\* in Connection or in the provider opens the socket again
Reconnect(l) == "up"
GiveUp(l) == "down"

\* the driver task meets the failure: the questions are rejected and the task
\* ends with the error
DriverFails ==
    /\ driver = "running"
    /\ link = "broken"
    /\ reqs' = RejectAll(reqs, "io_error")
    /\ link' = GiveUp(link)
    /\ driver' = "err"
    /\ UNCHANGED <<cstep, calls, cres, disc>>
    /\ UNCHANGED <<holders, nvars, wvars, qvars>>

\* BlockTalk::disconnect -> Connection::disconnect: `self.disconnector.await`
\* asks the rpc system to give up the connection.  disconnect takes the
\* Connection by value, so there is one call per connection.
DisconnectSignal ==
    /\ cstep = "ready"
    /\ disc = "none"
    /\ disc' = "signalled"
    /\ IF link \in {"up", "broken"}
         THEN reqs' = RejectAll(reqs, "disconnected") /\ link' = "down"
         ELSE UNCHANGED <<reqs, link>>
    /\ UNCHANGED <<cstep, calls, cres, driver>>
    /\ UNCHANGED <<holders, nvars, wvars, qvars>>

\* the driver task finds the connection given up and ends
DriverShutdown ==
    /\ driver = "running"
    /\ link = "down"
    /\ driver' = "ok"
    /\ UNCHANGED <<cstep, calls, cres, link, reqs, disc>>
    /\ UNCHANGED <<holders, nvars, wvars, qvars>>

\* disconnect: `self.rpc_handle.await` and the mapping of the task's result
DisconnectJoin ==
    /\ disc = "signalled"
    /\ driver \in {"ok", "err"}
    /\ disc' = driver
    /\ UNCHANGED <<cstep, calls, cres, driver, link, reqs>>
    /\ UNCHANGED <<holders, nvars, wvars, qvars>>

NextConn ==
    \/ \E ok \in BOOLEAN : ConnectCreateNetwork(ok)
    \/ \E p \in Providers : ConnectCreateRpc(p)
    \/ \E ok \in BOOLEAN : ConnectCreateClients(ok)
    \/ \E ok \in BOOLEAN : ConnectMakeMining(ok)
    \/ \E ok \in BOOLEAN : ConnectCreateNewBlock(ok)
    \/ \E r \in ReqIds : IssueRequest(r)
    \/ \E r \in ReqIds : AnswerRequest(r)
    \/ IoFailure
    \/ DriverFails
    \/ DisconnectSignal
    \/ DriverShutdown
    \/ DisconnectJoin

InitConn == InitNotifVars /\ InitWalletVars /\ InitConnVars /\ InitNodeVars

\* the local executor polls every task that is ready: the driver task and the
\* task awaiting in disconnect make their step once it is possible
SpecConn ==
    /\ InitConn
    /\ [][NextConn]_vars
    /\ WF_vars(DriverFails)
    /\ WF_vars(DriverShutdown)
    /\ WF_vars(DisconnectJoin)

C19_IoFailureEndsTransport ==
    /\ (link = "broken") ~> (driver \in {"ok", "err"} /\ \A r \in ReqIds : reqs[r] # "pending")
    /\ [][(link \in {"broken", "down"}) =>
             (link' # "up" /\ \A r \in ReqIds : reqs'[r] = "ok" => reqs[r] = "ok")]_vars
    /\ [][DriverFails =>
             \A r \in ReqIds : reqs[r] = "pending" => reqs'[r] = "io_error"]_vars

\* the driver has ended on an I/O failure, a request in flight was failed and a
\* request sent afterwards failed at once
C19_Witness ==
    /\ driver = "err"
    /\ link = "down"
    /\ \E r \in ReqIds : reqs[r] = "io_error"
    /\ \E r \in ReqIds : reqs[r] = "disconnected_at_send"

\* the setup steps of connect that return a Result
FallibleSteps == {"create_network", "create_clients", "make_mining", "create_new_block"}

NoContext(m) == "none"
RequestContext(m) == "thread"

\* a request as it leaves the client
Request(m) == [method |-> m, context |-> RequestContext(m)]

\* get_tip: `hash_req.get().set_height(height)`
HeightArgBelow(height) == IF height > 0 THEN height - 1 ELSE 0
HeightArg(height) == height

\* the node's answer to get_block_hash(k): the hash of its active chain at k,
\* as a byte string of len bytes; no answer above its tip
NodeTipHash(k, len) == <<[len |-> len, val |-> nodeTip]>>
NodeBlockHash(k, len) ==
    IF k <= nodeTip[1] THEN <<[len |-> len, val |-> AncestorAt(nodeTip, k)]>> ELSE <<>>

\* bytes_to_block_hash: 32 bytes are copied into the hash, any other length is
\* an InvalidBlockData error
BytesToBlockHash(bytes) ==
    IF bytes.len = 32 THEN <<"ok", bytes.val>> ELSE <<"err", "InvalidBlockData">>

\* the node connects a block or reorganises to the other branch
NodeChange(k, b) ==
    /\ TipOf(k, b) # nodeTip
    /\ nodeTip' = TipOf(k, b)
    /\ gt' = IF gt.pc = "height_sent" THEN gt ELSE [gt EXCEPT !.changed = TRUE]
    /\ UNCHANGED <<sent, done>>
    /\ UNCHANGED <<nvars, wvars, tvars>>

\* get_tip: the get_height request is sent with the thread in its context
GetTipSendHeight ==
    /\ gt.pc = "idle"
    /\ gt' = [NoTipCall EXCEPT !.pc = "height_sent"]
    /\ sent' = <<Request("get_height")>>
    /\ UNCHANGED <<nodeTip, done>>
    /\ UNCHANGED <<nvars, wvars, tvars>>

\* get_tip: the reply of get_height arrives (or the call fails: get_tip returns
\* the error) and get_block_hash is sent with that height
GetTipHeightReply(ok) ==
    /\ gt.pc = "height_sent"
    /\ IF ok
         THEN /\ gt' = [gt EXCEPT !.pc = "hash_sent", !.height = nodeTip[1],
                                  !.asked = HeightArg(nodeTip[1]), !.changed = FALSE,
                                  !.atHeight = nodeTip]
              /\ sent' = <<Request("get_block_hash")>>
         ELSE /\ gt' = [gt EXCEPT !.pc = "idle", !.res = <<"err", "get_height">>]
              /\ UNCHANGED sent
    /\ UNCHANGED <<nodeTip, done>>
    /\ UNCHANGED <<nvars, wvars, tvars>>

\* get_tip: the reply of get_block_hash arrives (or the call fails), the bytes
\* are converted and Ok((height, hash)) is returned
GetTipHashReply(ok, len) ==
    /\ gt.pc = "hash_sent"
    /\ LET reply == NodeBlockHash(gt.asked, len)
       IN  IF ok /\ reply # <<>>
             THEN LET hash == BytesToBlockHash(reply[1])
                  IN  gt' = [gt EXCEPT !.pc = "idle", !.atHash = nodeTip,
                                 !.res = IF hash[1] = "ok"
                                           THEN <<"ok", gt.height, hash[2]>>
                                           ELSE <<"err", "bytes_to_block_hash">>]
             ELSE gt' = [gt EXCEPT !.pc = "idle", !.res = <<"err", "get_block_hash">>]
    /\ UNCHANGED <<nodeTip, sent, done>>
    /\ UNCHANGED <<nvars, wvars, tvars>>

\* the replies of find_block: the call fails, or the reply has no data field,
\* an empty one, bytes that are no block, or the serialized block asked for
FindBlockReplies(hash) ==
    {[failed |-> TRUE, has_data |-> FALSE, data |-> <<>>],
     [failed |-> FALSE, has_data |-> FALSE, data |-> <<>>],
     [failed |-> FALSE, has_data |-> TRUE, data |-> <<>>],
     [failed |-> FALSE, has_data |-> TRUE, data |-> <<"garbage">>],
     [failed |-> FALSE, has_data |-> TRUE, data |-> <<"block", hash>>]}

\* get_block_by_hash: `!block_info.has_data() || block_info.get_data()?.is_empty()`
IsAbsentNoField(reply) == ~reply.has_data
IsAbsent(reply) == ~reply.has_data \/ reply.data = <<>>

\* bitcoin::consensus::deserialize::<Block>: the block the bytes encode, or an error
Deserialize(data) ==
    IF data # <<>> /\ data[1] = "block" THEN <<"ok", data[2]>> ELSE <<"err">>

\* get_block_by_hash: the result for a reply of find_block
BlockByHashResult(reply) ==
    IF reply.failed THEN <<"err", "BlockNotFound">>
    ELSE IF IsAbsent(reply) THEN <<"ok", "none">>
    ELSE IF Deserialize(reply.data)[1] = "ok"
           THEN <<"ok", "some", Deserialize(reply.data)[2]>>
           ELSE <<"err", "DeserializationFailed">>

\* Blockchain::get_block_by_hash
GetBlockByHash(hash, reply) ==
    /\ sent' = <<Request("find_block")>>
    /\ done' = [method |-> "get_block_by_hash", reply |-> reply,
                result |-> BlockByHashResult(reply)]
    /\ done' # done
    /\ UNCHANGED <<nodeTip, gt>>
    /\ UNCHANGED <<nvars, wvars, tvars>>

\* the replies of broadcast_transaction: the call fails, the error text is not
\* UTF-8, the node accepts the transaction, or it rejects it with a reason
BroadcastReplies ==
    {[failed |-> TRUE, utf8 |-> TRUE, error |-> "", result |-> FALSE],
     [failed |-> FALSE, utf8 |-> FALSE, error |-> "reason", result |-> FALSE],
     [failed |-> FALSE, utf8 |-> TRUE, error |-> "", result |-> TRUE],
     [failed |-> FALSE, utf8 |-> TRUE, error |-> "reason", result |-> FALSE]}

\* broadcast_transaction: Ok((result.get_error()?.to_string()?, result.get_result()))
BroadcastResultStrict(reply) ==
    IF reply.failed \/ ~reply.utf8 \/ ~reply.result THEN <<"err", "Connection">>
    ELSE <<"ok", reply.error, reply.result>>
BroadcastResult(reply) ==
    IF reply.failed \/ ~reply.utf8 THEN <<"err", "Connection">>
    ELSE <<"ok", reply.error, reply.result>>

\* Mempool::broadcast_transaction
BroadcastTransaction(reply) ==
    /\ sent' = <<Request("broadcast_transaction")>>
    /\ done' = [method |-> "broadcast_transaction", reply |-> reply,
                result |-> BroadcastResult(reply)]
    /\ done' # done
    /\ UNCHANGED <<nodeTip, gt>>
    /\ UNCHANGED <<nvars, wvars, tvars>>

\* the other requests of the three interfaces
OtherMethods ==
    {"find_ancestor_by_height", "find_common_ancestor", "is_initial_block_download",
     "handle_notifications", "is_in_mempool", "has_descendants_in_mempool",
     "get_transaction_ancestry", "get_block"}

\* get_block, is_synced, is_in_best_chain, find_common_ancestor,
\* begin_chain_updates, is_in_mempool, has_descendants_in_mempool,
\* get_transaction_ancestry, get_block_template: the request is sent
SendOther(m) ==
    /\ sent # <<Request(m)>>
    /\ sent' = <<Request(m)>>
    /\ UNCHANGED <<nodeTip, gt, done>>
    /\ UNCHANGED <<nvars, wvars, tvars>>

NextFacade ==
    \/ \E k \in Heights, b \in Branches : NodeChange(k, b)
    \/ GetTipSendHeight
    \/ \E ok \in BOOLEAN : GetTipHeightReply(ok)
    \/ \E ok \in BOOLEAN, len \in {31, 32} : GetTipHashReply(ok, len)
    \/ \E hash \in Hashes : \E reply \in FindBlockReplies(hash) : GetBlockByHash(hash, reply)
    \/ \E reply \in BroadcastReplies : BroadcastTransaction(reply)
    \/ \E m \in OtherMethods : SendOther(m)

InitFacade == InitNotifVars /\ InitWalletVars /\ InitConnVars /\ InitNodeVars

SpecFacade == InitFacade /\ [][NextFacade]_vars

(***************************************************************************)
(* Claims about the Blockchain and Mempool interfaces (checked under       *)
(* SpecFacade).                                                            *)
(***************************************************************************)
\* C21: get_tip asks get_block_hash for exactly the height get_height returned
\* and returns that height with the hash received; when the node's active chain
\* has not changed since get_height was answered the pair is the node's tip;
\* when either call fails get_tip returns an error and no pair.
C21_GetTipPairIsTip ==
    /\ gt.pc = "hash_sent" => gt.asked = gt.height
    /\ gt.res # <<>> =>
          \/ /\ gt.res[1] = "ok"
             /\ gt.asked = gt.height
             /\ gt.res[2] = gt.height
             /\ ~gt.changed => (gt.res[2] = nodeTip[1] /\ gt.res[3] = nodeTip)
          \/ /\ gt.res[1] = "err"
             /\ Len(gt.res) = 2

\* get_tip returned the pair of a tip above genesis, the node's chain unchanged
C21_Witness ==
    /\ gt.res # <<>>
    /\ gt.res[1] = "ok"
    /\ ~gt.changed
    /\ gt.res[2] >= 1

C23_BroadcastPairUnchanged ==
    (done # <<>> /\ done.method = "broadcast_transaction") =>
        LET reply == done.reply
        IN  IF reply.failed \/ ~reply.utf8
              THEN done.result[1] = "err"
              ELSE /\ done.result = <<"ok", reply.error, reply.result>>
                   /\ ~reply.result => (done.result[2] # "" /\ done.result[3] = FALSE)
                   /\ reply.result => done.result = <<"ok", "", TRUE>>

\* broadcast_transaction returned the node's rejection as a success value
C23_Witness ==
    /\ done # <<>>
    /\ done.method = "broadcast_transaction"
    /\ done.result = <<"ok", "reason", FALSE>>

(***************************************************************************)
(* The notification service with remove_notification_handler.              *)
(***************************************************************************)
\* Blockchain::remove_notification_handler: the lock is taken and Ok(()) is
\* returned; the Vec of handlers is not touched
RemoveNotificationHandler(h) ==
    /\ cur = 0
    /\ h \in Range(regOrder)
    /\ h \notin removed
    /\ removed' = removed \cup {h}
    /\ UNCHANGED <<handlers, listening, cur, ev, regOrder>>
    /\ UNCHANGED <<wvars, tvars, qvars>>

NextRemove ==
    \/ \E h \in HandlerIds : AddNotificationHandler(h)
    \/ \E h \in HandlerIds : RemoveNotificationHandler(h)
    \/ BeginChainUpdates
    \/ \E e \in EventIds, m \in Methods, dec \in BOOLEAN : InboundCall(e, m, dec)
    \/ \E e \in EventIds : InvokeHandler(e)
    \/ \E e \in EventIds : HandlerSuspend(e)
    \/ \E e \in EventIds : HandlerResume(e)
    \/ \E e \in EventIds, ok \in BOOLEAN : HandlerReturn(e, ok)
    \/ \E e \in EventIds : DispatchEnd(e)

InitRemove == InitNotifVars /\ InitWalletVars /\ InitConnVars /\ InitNodeVars

SpecRemove == InitRemove /\ [][NextRemove]_vars

\* C24: after remove_notification_handler(h) has returned Ok for a handler added
\* before, h is not in the registry and no event dispatched from then on
\* invokes it.
C24_RemovedHandlerIsGone ==
    /\ [](\A h \in removed : h \notin Range(handlers))
    /\ [][\A e \in EventIds :
             (ev[e].st = "none" /\ ev'[e].st = "dispatch") =>
                 Range(ev'[e].snapshot) \cap removed = {}]_vars

\* C25: create_wallet with options.descriptors = false creates no wallet in the
\* store and ends without a wallet object to install as the current one.
C25_NoDescriptorsNoWallet ==
    [][\A w \in Workers :
          CreateWallet(w, ParseCreateWalletOptions("false")) =>
              (db' = db /\ inst' = inst /\ pc'[w] = "idle")]_vars

(***************************************************************************)
(* sync_wallet taken one await at a time: where the guard of the wallet    *)
(* mutex is held while the thread is suspended in an IPC call.             *)
(***************************************************************************)
\* sync_wallet: `let mut wallet_guard = wallet.lock().unwrap()`, then
\* latest_checkpoint and start_height; (tip_height, tip_hash) is the answer of
\* get_tip.  With an empty range the loop is over at once; otherwise the thread
\* goes on to the first get_block(..).await, the guard being a live local.
SyncLock(w, k, b) ==
    /\ pc[w] = "sync_lock"
    /\ MutexFree(loc[w].wal)
    /\ lock' = [lock EXCEPT ![loc[w].wal] = w]
    /\ LET cp == LatestCheckpoint(inst[loc[w].wal].chain)
           l == [loc[w] EXCEPT !.start = SyncStartHeight(cp),
                               !.last = k,
                               !.tipHash = TipOf(k, b)]
       IN  Goto(w, IF l.start > k THEN "sync_ok" ELSE "sync_fetch", l)
    /\ UNCHANGED <<db, current, inst, ops, gnaLog>>
    /\ UNCHANGED <<nvars, tvars, qvars>>

\* Blockchain::get_block(node_tip_hash, height): find_ancestor_by_height with
\* block_hash = node_tip_hash, ancestor_height = height and want_data
GetBlockOfActiveChain(tipHash, h) == IF h = 0 THEN Genesis ELSE <<h, "a">>
GetBlock(tipHash, h) == AncestorAt(tipHash, h)

\* one turn of the loop: get_block(&tip_hash, height).await resolves, the block is
\* applied through the guard (`if let Ok(block)`), an error is skipped, and the
\* thread goes on to the next await or leaves the loop; an apply error returns
\* and drops the guard.  After the transport was closed every call fails.
SyncFetch(w, res) ==
    /\ pc[w] = "sync_fetch"
    /\ loc[w].cut => res = "closed"
    /\ LET l == loc[w]
           r == ApplyBlock(inst[l.wal].chain, GetBlock(l.tipHash, l.start), l.start)
           n == [l EXCEPT !.start = l.start + 1, !.cut = l.cut \/ res = "closed"]
       IN  IF res = "block" /\ ~r.ok
             THEN /\ lock' = [lock EXCEPT ![l.wal] = 0]
                  /\ Return(w)
                  /\ inst' = Collect(inst, current, loc')
                  /\ gnaLog' = CollectLog(gnaLog, current, loc')
             ELSE /\ Goto(w, IF n.start > l.last THEN "sync_ok" ELSE "sync_fetch", n)
                  /\ inst' = IF res = "block"
                               THEN [inst EXCEPT ![l.wal].chain = r.chain]
                               ELSE inst
                  /\ UNCHANGED <<lock, gnaLog>>
    /\ UNCHANGED <<db, current, ops>>
    /\ UNCHANGED <<nvars, tvars, qvars>>

NextLock ==
    \/ \E w \in Workers, p \in DescriptorsParams :
          CreateWallet(w, ParseCreateWalletOptions(p))
    \/ \E w \in Workers : CreateSetCurrent(w)
    \/ \E w \in Workers : GnaGetCurrent(w)
    \/ \E w \in Workers : GnaLock(w)
    \/ \E w \in Workers : GnaWrite(w)
    \/ \E w \in Workers, ok \in BOOLEAN : SyncGetTip(w, ok)
    \/ \E w \in Workers, k \in Heights, b \in Branches : SyncLock(w, k, b)
    \/ \E w \in Workers, res \in FetchResults : SyncFetch(w, res)
    \/ \E w \in Workers : SyncDone(w)

InitLock == InitNotifVars /\ InitWalletVars /\ InitConnVars /\ InitNodeVars

SpecLock == InitLock /\ [][NextLock]_vars

\* C26: a thread suspended in a get_block await of sync_wallet does not hold the
\* wallet mutex, so another operation on that wallet can take it between two
\* block fetches.
C26_NoLockAcrossAwait ==
    \A w \in Workers :
        pc[w] = "sync_fetch" =>
            /\ lock[loc[w].wal] # w
            /\ (\A v \in Workers \ {w} :
                   (pc[v] = "gna_lock" /\ loc[v].wal = loc[w].wal) => ENABLED GnaLock(v))

\* C27: get_new_address and sync_wallet mutate only the wallet object that is the
\* current one at the moment of the mutation.
C27_MutationOnCurrentWallet ==
    [][\A w \in Workers :
          /\ GnaWrite(w) => loc[w].wal = current
          /\ (\E k \in Heights, b \in Branches : SyncApplyBlocks(w, k, b))
                 => loc[w].wal = current]_vars

\* get_blocktalk: `BlockTalk::init(&self.node_socket)` connects anew on every
\* call; sync_wallet and rescan_blockchain keep the result in the local
\* `blocktalk` from their first line to their return.  The threads that own a
\* connection to the node at this moment.
Transports ==
    {w \in Workers :
        pc[w] \in {"sync_lock", "sync_fetch", "sync_ok", "rescan_lock", "rescan_ok"}}

\* C28: at most one connection to the node exists at any time; the sync_wallet
\* and rescan_blockchain operations share it.
C28_OneTransport == Cardinality(Transports) <= 1

\* the calls to the peer that a setup step of connect sends when it succeeds:
\* create_clients sends construct, make_thread and make_chain one after the
\* other, connect itself then make_mining and create_new_block
PeerCallsOf(step) ==
    CASE step = "create_clients" -> <<"construct", "make_thread", "make_chain">>
      [] step = "make_mining" -> <<"make_mining">>
      [] step = "create_new_block" -> <<"create_new_block">>
      [] OTHER -> <<>>

\* the calls to the peer sent by the setup steps that succeeded, in order
RECURSIVE PeerCalls(_)
PeerCalls(cs) ==
    IF cs = <<>> THEN <<>>
    ELSE (IF Head(cs).ok THEN PeerCallsOf(Head(cs).step) ELSE <<>>) \o PeerCalls(Tail(cs))

\* C29: when connect has returned the connection it has sent exactly two calls
\* to the peer, construct and then make_thread.
C29_ConnectSendsTwoCalls ==
    cstep = "ready" => PeerCalls(calls) = <<"construct", "make_thread">>

\* C30: every Chain, Mempool and BlockTemplate request that is sent carries the
\* thread capability in its context field.
C30_EveryRequestHasThread ==
    sent # <<>> => sent[1].context = "thread"

C30_Witness ==
    /\ sent # <<>>
    /\ sent[1].method = "get_block"
    /\ done # <<>>

HandlerAddsHandler(e, h) ==
    /\ cur = e
    /\ ev[e].inH
    /\ HandlersLockFree
    /\ h = Len(regOrder) + 1
    /\ handlers' = RegisterHandler(handlers, h)
    /\ regOrder' = Append(regOrder, h)
    /\ UNCHANGED <<listening, cur, ev>>
    /\ UNCHANGED <<removed, wvars, tvars, qvars>>

NextReentrant ==
    \/ \E h \in HandlerIds : AddNotificationHandler(h)
    \/ \E e \in EventIds, h \in HandlerIds : HandlerAddsHandler(e, h)
    \/ BeginChainUpdates
    \/ \E e \in EventIds, m \in Methods, dec \in BOOLEAN : InboundCall(e, m, dec)
    \/ \E e \in EventIds : InvokeHandler(e)
    \/ \E e \in EventIds : HandlerSuspend(e)
    \/ \E e \in EventIds : HandlerResume(e)
    \/ \E e \in EventIds, ok \in BOOLEAN : HandlerReturn(e, ok)
    \/ \E e \in EventIds : DispatchEnd(e)

InitReentrant == InitNotifVars /\ InitWalletVars /\ InitConnVars /\ InitNodeVars

SpecReentrant == InitReentrant /\ [][NextReentrant]_vars

\* C32: while a handler runs or is suspended the lock of the handler list is
\* free, so a registration by the running handler, or by another task while the
\* handler is suspended, goes through (as long as handlers are left to add).
C32_LockFreeWhileHandlerRuns ==
    \A e \in EventIds :
        ev[e].inH =>
            /\ HandlersLockFree
            /\ Len(regOrder) < MaxHandlers =>
                  /\ cur = e => ENABLED HandlerAddsHandler(e, Len(regOrder) + 1)
                  /\ cur = 0 => ENABLED AddNotificationHandler(Len(regOrder) + 1)

\* a handler was registered after the snapshot of a dispatch whose handler is
\* suspended right now
C32_Witness ==
    \E e \in EventIds :
        /\ ev[e].inH
        /\ ev[e].susp
        /\ Len(regOrder) > Len(ev[e].regs)

\* C33: rescan_blockchain(start, stop) resets the wallet to its state at start
\* before it applies the blocks: when it has fetched every block of start..=stop
\* and is about to return success, the wallet's checkpoint is the block at stop
\* and nothing the wallet held above start - 1 before is left.
C33_RescanStartsFromReset ==
    \A w \in Workers :
        (/\ pc[w] = "rescan_ok"
         /\ 0 <= loc[w].start
         /\ loc[w].start <= loc[w].last
         /\ \A h \in DOMAIN loc[w].res : loc[w].res[h] = "block") =>
            LET c == inst[loc[w].wal].chain
            IN  /\ LatestCheckpoint(c).height = loc[w].last
                /\ LatestCheckpoint(c).hash = AncestorAt(loc[w].tipHash, loc[w].last)

(***************************************************************************)
(* The wallet operations with process_transaction and the read-only        *)
(* queries.                                                                *)
(***************************************************************************)
\* a transaction, as far as the wallet is concerned: whether an output pays a
\* script of the wallet and whether an input spends an output of the wallet
Transactions == [pays : BOOLEAN, spends : BOOLEAN]

\* the block_height argument: None or Some(height)
BlockHeightArgs == {<<>>} \cup {<<k>> : k \in Heights}

\* process_transaction: `tx.output.iter().any(|output| wallet_guard.is_mine(..))`;
\* the inputs are not looked at
IsRelevant(tx) == tx.pays

\* process_transaction: get_current_wallet, lock, is_relevant; for a relevant
\* transaction two log lines and a TransactionMetadata value that is dropped
\* (persist and store_tx_metadata are commented out); Ok(()) and the guard is
\* dropped.  Without a current wallet the error of get_current_wallet.
ProcessTransaction(w, tx, bh) ==
    /\ Begin(w)
    /\ GetCurrentWallet(current)[1] = "ok" => MutexFree(GetCurrentWallet(current)[2])
    /\ Return(w)
    /\ done' = [method |-> "process_transaction", reply |-> <<>>,
                result |-> IF GetCurrentWallet(current)[1] = "ok"
                             THEN <<"ok">> ELSE GetCurrentWallet(current)]
    /\ UNCHANGED <<db, current, inst, lock, gnaLog>>
    /\ UNCHANGED <<nodeTip, gt, sent>>
    /\ UNCHANGED <<nvars, tvars>>

\* list_unspent and list_transactions: get_current_wallet, lock, the collected
\* iterator, drop of the guard; nothing is written
ReadOnlyQueries == {"list_unspent", "list_transactions"}

WalletQuery(w, m) ==
    /\ Begin(w)
    /\ GetCurrentWallet(current)[1] = "ok" => MutexFree(GetCurrentWallet(current)[2])
    /\ Return(w)
    /\ done' = [method |-> m, reply |-> <<>>,
                result |-> IF GetCurrentWallet(current)[1] = "ok"
                             THEN <<"ok">> ELSE GetCurrentWallet(current)]
    /\ UNCHANGED <<db, current, inst, lock, gnaLog>>
    /\ UNCHANGED <<nodeTip, gt, sent>>
    /\ UNCHANGED <<nvars, tvars>>

\* create_wallet up to the `?` after database.create_wallet, the error being
\* put on record
CreateWalletCall(w, options) ==
    /\ Begin(w)
    /\ LET r == DatabaseCreateWallet(db)
       IN  IF r[1] = "err"
             THEN /\ Return(w)
                  /\ done' = [method |-> "create_wallet", reply |-> <<>>, result |-> r]
                  /\ UNCHANGED <<db, inst>>
             ELSE /\ db' = <<r[2]>>
                  /\ inst' = Append(inst, r[2])
                  /\ Goto(w, "create_set", [loc[w] EXCEPT !.wal = Len(inst) + 1])
                  /\ UNCHANGED done
    /\ UNCHANGED <<current, lock, gnaLog>>
    /\ UNCHANGED <<nodeTip, gt, sent>>
    /\ UNCHANGED <<nvars, tvars>>

\* load_wallet up to the `?` after database.load_wallet, the error being put on
\* record
LoadWalletCall(w) ==
    /\ Begin(w)
    /\ LET r == DatabaseLoadWallet(db)
       IN  IF r[1] = "err"
             THEN /\ Return(w)
                  /\ done' = [method |-> "load_wallet", reply |-> <<>>, result |-> r]
                  /\ UNCHANGED inst
             ELSE /\ inst' = Append(inst, r[2])
                  /\ Goto(w, "load_set", [loc[w] EXCEPT !.wal = Len(inst) + 1])
                  /\ UNCHANGED done
    /\ UNCHANGED <<db, current, lock, gnaLog>>
    /\ UNCHANGED <<nodeTip, gt, sent>>
    /\ UNCHANGED <<nvars, tvars>>

\* load_wallet: `self.sync_wallet().await` with no node to connect to:
\* get_blocktalk fails, sync_wallet returns the error and load_wallet returns it
LoadSyncFails(w) ==
    /\ pc[w] = "sync_wallet"
    /\ Return(w)
    /\ done' = [method |-> "load_wallet", reply |-> <<>>, result |-> <<"err", "sync_wallet">>]
    /\ UNCHANGED <<db, current, inst, lock, gnaLog, ops>>
    /\ UNCHANGED <<nodeTip, gt, sent>>
    /\ UNCHANGED <<nvars, tvars>>

NextTx ==
    \/ \E w \in Workers, p \in DescriptorsParams :
          CreateWalletCall(w, ParseCreateWalletOptions(p))
    \/ \E w \in Workers : CreateSetCurrent(w)
    \/ \E w \in Workers : LoadWalletCall(w)
    \/ \E w \in Workers : LoadSetCurrent(w)
    \/ \E w \in Workers : LoadSyncFails(w)
    \/ \E w \in Workers : GnaGetCurrent(w)
    \/ \E w \in Workers : GnaLock(w)
    \/ \E w \in Workers : GnaWrite(w)
    \/ \E w \in Workers, tp \in Amounts, up \in Amounts, im \in Amounts :
          GetBalance(w, tp, up, im)
    \/ \E w \in Workers : GetBalanceDone(w)
    \/ \E w \in Workers, m \in ReadOnlyQueries : WalletQuery(w, m)
    \/ \E w \in Workers, tx \in Transactions, bh \in BlockHeightArgs :
          ProcessTransaction(w, tx, bh)

InitTx == InitNotifVars /\ InitWalletVars /\ InitConnVars /\ InitNodeVars

SpecTx == InitTx /\ [][NextTx]_vars

\* C34: process_transaction on a current wallet changes the wallet for a
\* transaction that pays to it or spends from it (outputs added, spent outputs
\* removed, the transaction recorded) and leaves it as it is for any other.
C34_RelevantTransactionIsRecorded ==
    [][\A w \in Workers, tx \in Transactions, bh \in BlockHeightArgs :
          (current # 0 /\ ProcessTransaction(w, tx, bh)) =>
              IF tx.pays \/ tx.spends
                THEN inst'[current] # inst[current] \/ db' # db
                ELSE inst' = inst /\ db' = db]_vars

\* the step of thread w is a call of get_new_address, get_balance, list_unspent,
\* list_transactions or process_transaction
QueryStep(w) ==
    \/ GnaGetCurrent(w)
    \/ \E tp \in Amounts, up \in Amounts, im \in Amounts : GetBalance(w, tp, up, im)
    \/ \E m \in ReadOnlyQueries : WalletQuery(w, m)
    \/ \E tx \in Transactions, bh \in BlockHeightArgs : ProcessTransaction(w, tx, bh)

C36_StoreErrorKeepsCurrent ==
    [][\A w \in Workers :
          (\/ db # NoWallet /\ \E p \in DescriptorsParams :
                                 CreateWalletCall(w, ParseCreateWalletOptions(p))
           \/ db = NoWallet /\ LoadWalletCall(w)) =>
              /\ pc'[w] = "idle"
              /\ done'.result[1] = "err"
              /\ current' = current
              /\ db' = db /\ inst' = inst]_vars

\* create_wallet has returned the store's error and a wallet is current
C36_Witness ==
    /\ done # <<>>
    /\ done.method = "create_wallet"
    /\ done.result[1] = "err"
    /\ current # 0
    /\ \A w \in Workers : pc[w] = "idle"

\* C37: load_wallet installs the loaded wallet as the current one and only then
\* syncs; when that sync fails load_wallet returns the error and the pointer
\* stays on the loaded wallet.
C37_LoadSwitchesBeforeSync ==
    [][\A w \in Workers :
          /\ LoadSetCurrent(w) => (current' = loc[w].wal /\ pc'[w] = "sync_wallet")
          /\ LoadSyncFails(w) =>
                /\ pc'[w] = "idle"
                /\ done'.result[1] = "err"
                /\ current' = current
                /\ current' # 0]_vars

\* load_wallet has returned the error of its sync and the loaded wallet object
\* (the second one of the process, after the created one) is current
C37_Witness ==
    /\ done # <<>>
    /\ done.method = "load_wallet"
    /\ done.result = <<"err", "sync_wallet">>
    /\ current >= 2
    /\ \A w \in Workers : pc[w] = "idle"

\* C38: every block a run of sync_wallet puts on the wallet's chain is the
\* ancestor, at its height, of the one tip_hash the run read at its start, and
\* the run keeps that tip_hash to its end.
C38_OneTipPerSync ==
    [][\A w \in Workers, res \in FetchResults :
          (SyncFetch(w, res) /\ pc'[w] # "idle") =>
              /\ loc'[w].tipHash = loc[w].tipHash
              /\ \A h \in Heights :
                    inst'[loc[w].wal].chain[h] # inst[loc[w].wal].chain[h] =>
                        inst'[loc[w].wal].chain[h] = AncestorAt(loc[w].tipHash, h)]_vars

\* a run that has applied the two blocks of branch b below its tip
C38_Witness ==
    \E w \in Workers :
        /\ pc[w] = "sync_ok"
        /\ loc[w].tipHash[2] = "b"
        /\ loc[w].last >= 2
        /\ \A h \in 1..2 : inst[loc[w].wal].chain[h] = AncestorAt(loc[w].tipHash, h)

\* C39: sync_wallet on a wallet whose checkpoint is at or above the height of
\* the tip the node reported fetches and applies nothing: it goes from taking
\* the lock straight to its successful return, with the wallet objects and the
\* store as they were.
C39_NoRollback ==
    [][\A w \in Workers :
          /\ \A k \in Heights, b \in Branches :
                (/\ SyncLock(w, k, b)
                 /\ LatestCheckpoint(inst[loc[w].wal].chain).height >= k) =>
                    (pc'[w] = "sync_ok" /\ inst' = inst /\ db' = db)
          /\ SyncDone(w) => (pc'[w] = "idle" /\ inst' = inst /\ db' = db)]_vars

\* a sync about to return success on a wallet that is ahead of the reported tip
\* and on the other branch
C39_Witness ==
    \E w \in Workers :
        /\ pc[w] = "sync_ok"
        /\ LET cp == LatestCheckpoint(inst[loc[w].wal].chain)
           IN  /\ cp.height > loc[w].last
               /\ loc[w].last >= 1
               /\ cp.hash[2] # loc[w].tipHash[2]

(***************************************************************************)
(* The BlockTalk facade, which is Clone: every clone holds the Arc of the  *)
(* Connection.                                                             *)
(***************************************************************************)
\* the clones of the facade that may be alive at once
MaxHolders == 2

\* Arc::try_unwrap: the value when the strong count is one, the Arc back otherwise
TryUnwrapAlways(n) == "ok"
TryUnwrap(n) == IF n = 1 THEN "ok" ELSE "err"

\* BlockTalk::clone (#[derive(Clone)])
CloneFacade ==
    /\ cstep = "ready"
    /\ disc = "none"
    /\ holders < MaxHolders
    /\ holders' = holders + 1
    /\ UNCHANGED <<cstep, calls, cres, driver, link, reqs, disc>>
    /\ UNCHANGED <<nvars, wvars, qvars>>

\* BlockTalk::disconnect(self): `match Arc::try_unwrap(self.connection)`: the
\* last owner goes on to Connection::disconnect, any other drops its Arc and
\* returns Ok(())
BlockTalkDisconnect ==
    \/ /\ TryUnwrap(holders) = "ok"
       /\ DisconnectSignal
    \/ /\ TryUnwrap(holders) = "err"
       /\ cstep = "ready"
       /\ disc = "none"
       /\ holders' = holders - 1
       /\ done' = [method |-> "disconnect", reply |-> <<>>, result |-> <<"ok">>]
       /\ UNCHANGED <<cstep, calls, cres, driver, link, reqs, disc>>
       /\ UNCHANGED <<nodeTip, gt, sent>>
       /\ UNCHANGED <<nvars, wvars>>

NextShared ==
    \/ \E ok \in BOOLEAN : ConnectCreateNetwork(ok)
    \/ \E p \in Providers : ConnectCreateRpc(p)
    \/ \E ok \in BOOLEAN : ConnectCreateClients(ok)
    \/ \E ok \in BOOLEAN : ConnectMakeMining(ok)
    \/ \E ok \in BOOLEAN : ConnectCreateNewBlock(ok)
    \/ \E r \in ReqIds : IssueRequest(r)
    \/ \E r \in ReqIds : AnswerRequest(r)
    \/ IoFailure
    \/ DriverFails
    \/ CloneFacade
    \/ BlockTalkDisconnect
    \/ DriverShutdown
    \/ DisconnectJoin

InitShared == InitNotifVars /\ InitWalletVars /\ InitConnVars /\ InitNodeVars

SpecShared == InitShared /\ [][NextShared]_vars

\* C40: BlockTalk::disconnect on a facade that is not the last owner of the
\* Connection returns Ok and leaves the driver task, the connection and the
\* requests in flight as they are; on the last owner it disconnects.
C40_DisconnectOnlyByLastOwner ==
    [][BlockTalkDisconnect =>
          IF holders > 1
            THEN /\ driver' = driver /\ link' = link /\ reqs' = reqs
                 /\ disc' = "none"
                 /\ done'.result = <<"ok">>
            ELSE /\ disc' = "signalled"
                 /\ \A r \in ReqIds : reqs'[r] # "pending"]_vars

\* a clone's disconnect has returned Ok; the driver runs on and a request is
\* still in flight
C40_Witness ==
    /\ done # <<>>
    /\ done.method = "disconnect"
    /\ holders = 1
    /\ disc = "none"
    /\ driver = "running"
    /\ \E r \in ReqIds : reqs[r] = "pending"
====
